---------------------------- MODULE Spec2Model ----------------------------
(***************************************************************************)
(* HOSCON (pppp_app.py): a Streamlit script over one SQLite file.          *)
(*                                                                         *)
(* Every user interaction re-executes the whole script top to bottom:      *)
(*   conn = init_db()            (line 69)                                 *)
(*   insert_sample_data(conn)    (line 118)                                *)
(*   the six tabs; at most one st.button is True in a run, so at most one  *)
(*   handler writes.                                                       *)
(* The model follows that control flow with pc:                            *)
(*   "idle" --InitDb--> "seed" --InsertSampleData--> "ui" --handler-->     *)
(*   "idle".                                                               *)
(*                                                                         *)
(* The committed content of the store is held in one variable per table    *)
(* (a sequence of rows; the row at index i has id i, since ids are         *)
(* INTEGER PRIMARY KEY rowids and nothing is ever deleted).  Rows written  *)
(* by a connection and not yet committed are held apart (pending).         *)
(***************************************************************************)
EXTENDS Integers, Sequences, FiniteSets, TLC

\* ------------------------------------------------------------------ bounds

\* Number of script runs (page loads / button presses) explored.
MaxRuns == 3

\* ------------------------------------------------------- program constants

\* SQL NULL in an integer column (rowids start at 1, so 0 is never an id).
NULL == 0

SixTables ==
    {"departments", "staff", "incidents", "tasks", "resources",
     "communication_logs"}

\* Order of the export loop.
TableOrder ==
    <<"departments", "staff", "incidents", "tasks", "resources",
      "communication_logs">>

\* Tables whose name column is declared UNIQUE.
UniqueNameTables == {"departments", "resources"}

DepartmentStatuses == {"Green", "Yellow", "Red"}
Priorities == {"Low", "Medium", "High", "Critical"}
IncidentStatuses == {"Open", "In Progress", "Resolved"}
TaskStatuses == {"Open", "In Progress", "Completed"}

sample_departments ==
    << [name |-> "Emergency Department", status |-> "Green", notes |-> "All clear"],
       [name |-> "Intensive Care Unit (ICU)", status |-> "Green", notes |-> "Normal operations"],
       [name |-> "Surgery", status |-> "Green", notes |-> "Scheduled procedures"],
       [name |-> "Pharmacy", status |-> "Green", notes |-> "Well-stocked"] >>

sample_resources ==
    << [name |-> "Ventilator", quantity |-> 10, unit |-> "units"],
       [name |-> "Sterile Gloves", quantity |-> 500, unit |-> "pairs"],
       [name |-> "Blood Bags (O+)", quantity |-> 20, unit |-> "units"],
       [name |-> "Stretchers", quantity |-> 15, unit |-> "units"] >>

\* name, role, department looked up by name, present
sample_staff_spec ==
    << <<"Alice Smith", "Nurse", "Emergency Department", 1>>,
       <<"Bob Johnson", "Doctor", "Intensive Care Unit (ICU)", 1>>,
       <<"Charlie Brown", "Surgeon", "Surgery", 0>>,
       <<"Diana Prince", "Pharmacist", "Pharmacy", 1>> >>

\* type, description, priority, status (the timestamp is read per row)
sample_incidents_spec ==
    << <<"Mass Casualty Event", "Multiple casualties arriving from highway accident", "Critical", "Open">>,
       <<"Power Outage", "Hospital lost main power, on backup generator", "High", "In Progress">>,
       <<"Supply Shortage", "Running low on sterile gloves in Emergency", "Medium", "Open">>,
       <<"Staffing Issue", "Shortage of nurses in ICU for night shift", "High", "Open">> >>

\* The files export_all writes.
CsvName(t) == t \o ".csv"
BundleName == "bundle.json"
Artifacts == {CsvName(t) : t \in SixTables} \cup {BundleName}

\* ------------------------------------------------------------------- state

VARIABLES
    tables,              \* names of the tables present in the store file
    departments,         \* committed rows, id = index
    staff,
    incidents,
    tasks,
    resources,
    communication_logs,
    pending,             \* incident rows written by conn, not committed
    leaked,              \* uncommitted incident rows of an earlier connection
                         \* object that is not finalized yet (it holds the
                         \* write lock of the file)
    exports,             \* the exports/ directory: file name -> content
    pc,                  \* position of the script
    runs,                \* script runs started
    clock,               \* datetime.now(UTC) reads so far
    msg,                 \* what the run reported (st.success/error/...)
    ret,                 \* return value of update_incident_details
    files,               \* return value of export_all
    aborted              \* timestamps of the compound operations that raised
                         \* between their two INSERTs (history)

vars ==
    <<tables, departments, staff, incidents, tasks, resources,
      communication_logs, pending, leaked, exports, pc, runs, clock, msg,
      ret, files, aborted>>

store == <<tables, departments, staff, incidents, tasks, resources,
           communication_logs>>

\* ----------------------------------------------------------------- helpers

Range(s) == {s[i] : i \in 1..Len(s)}

Names(rows) == [i \in 1..Len(rows) |-> rows[i].name]

\* First index whose row carries the name (df[df["name"] == n].iloc[0]).
FirstByName(rows, n) ==
    CHOOSE i \in 1..Len(rows) :
        /\ rows[i].name = n
        /\ \A j \in 1..(i - 1) : rows[j].name # n

\* A faulty variant of Conflicts: the name column is not declared UNIQUE.
ConflictsNever(t, rows, row) == FALSE

\* INSERT OR IGNORE: the row is skipped when it violates a constraint of the
\* table; the only constraint a name can violate is UNIQUE(name).
Conflicts(t, rows, row) ==
    /\ t \in UniqueNameTables
    /\ \E i \in 1..Len(rows) : rows[i].name = row.name

\* A faulty variant of InsertOrIgnore: a plain INSERT that the table accepts.
InsertAlways(t, rows, row) == Append(rows, row)

InsertOrIgnore(t, rows, row) ==
    IF Conflicts(t, rows, row) THEN rows ELSE Append(rows, row)

RECURSIVE ExecuteManyOrIgnore(_, _, _)
ExecuteManyOrIgnore(t, rows, news) ==
    IF news = <<>> THEN rows
    ELSE ExecuteManyOrIgnore(t, InsertOrIgnore(t, rows, Head(news)), Tail(news))

\* dept_ids.get(name): the id of the department row with that name, or None.
DeptIdGet(depts, n) ==
    IF \E i \in 1..Len(depts) : depts[i].name = n
    THEN CHOOSE i \in 1..Len(depts) : depts[i].name = n
    ELSE NULL

\* A faulty variant of CreateTableIfNotExists: the table is dropped and created anew.
CreateTableAnew(t, rows) == <<>>

\* CREATE TABLE IF NOT EXISTS: an existing table keeps its rows.
CreateTableIfNotExists(t, rows) == IF t \in tables THEN rows ELSE <<>>

\* A faulty variant of NewConnPending: the connection object is kept across runs.
ReusedConnPending(old) == old

\* sqlite3.connect returns a new connection with no open transaction: what
\* the previous connection object had written and not committed is not
\* carried over.
NewConnPending(old) == <<>>

\* The incidents table as the current connection sees it.
ConnIncidents == incidents \o pending

\* conn.commit(): everything the connection wrote becomes durable.
Commit(newIncidents) ==
    /\ incidents' = newIncidents
    /\ pending' = <<>>

\* "SELECT s.name, s.role, d.name as department, s.present FROM staff s JOIN
\* departments d ON s.department_id = d.id"
JoinRow(s) ==
    [name |-> s.name, role |-> s.role,
     department |-> departments[s.department_id].name, present |-> s.present]

RECURSIVE StaffJoin(_)
StaffJoin(rows) ==
    IF rows = <<>> THEN <<>>
    ELSE LET s == Head(rows) IN
         (IF s.department_id \in 1..Len(departments)
          THEN <<JoinRow(s)>> ELSE <<>>) \o StaffJoin(Tail(rows))

AllStaffView == StaffJoin(staff)


\* ------------------------------------------------------------------ inputs

\* What the user types or picks in the widgets.  A selectbox offers every
\* row; the runs explored pick the first or the last option.
PickIdx(n) == {i \in {1, n} : 1 <= i /\ i <= n}

StaffNameInputs == {"Eve Adams", ""}
StaffRoleInputs == {"Nurse"}
UpdatedRoleInputs == {"Doctor"}
NotesInputs == {"Power failure"}
IncTypeInputs == {"Fire", ""}
IncDescInputs == {"Kitchen fire"}
IncPriorityInputs == {"Low", "Critical"}
IncStatusInputs == {"Open"}
TaskTitleInputs == {"Evacuate"}
ResourceNameInputs == {"Ventilator", "Oxygen", ""}
ResourceUnitInputs == {"cylinders"}
NewQuantityInputs == {3}
UpdatedQuantityInputs == {0, 7}
\* update_incident_details is a plain function: its caller passes anything.
TypeArgs == {"Fire"}
DescriptionArgs == {"Kitchen fire"}
PriorityArgs == {"High", "Urgent"}
StatusArgs == {"Resolved", "Closed"}
\* What exports/ may hold before the first export: nothing, or files left
\* there earlier (a foreign file and an old table export).
OldFile == "notes.txt"
OldContent == << <<"departments", <<>> >> >>
InitialExportDirs == { {}, {OldFile, CsvName("departments")} }

\* -------------------------------------------------------------------- Init

Init ==
    /\ tables = {}
    /\ departments = <<>>
    /\ staff = <<>>
    /\ incidents = <<>>
    /\ tasks = <<>>
    /\ resources = <<>>
    /\ communication_logs = <<>>
    /\ pending = <<>>
    /\ leaked = <<>>
    /\ \E d \in InitialExportDirs : exports = [f \in d |-> OldContent]
    /\ pc = "idle"
    /\ runs = 0
    /\ clock = 0
    /\ msg = "none"
    /\ ret = "none"
    /\ files = {}
    /\ aborted = {}

\* ----------------------------------------------------- init_db (line 11-69)

\* A script run starts: conn = init_db().  The name conn is rebound to a new
\* connection.  The previous connection object is finalized (its open
\* transaction is rolled back) when the interpreter drops it, which may or
\* may not have happened by now (closed).
InitDb ==
    /\ pc = "idle"
    /\ runs < MaxRuns
    /\ \E closed \in BOOLEAN :
          leaked' = IF closed THEN <<>> ELSE leaked \o pending
    /\ pending' = NewConnPending(pending)
    /\ tables' = tables \cup SixTables
    /\ departments' = CreateTableIfNotExists("departments", departments)
    /\ staff' = CreateTableIfNotExists("staff", staff)
    /\ incidents' = CreateTableIfNotExists("incidents", incidents)
    /\ tasks' = CreateTableIfNotExists("tasks", tasks)
    /\ resources' = CreateTableIfNotExists("resources", resources)
    /\ communication_logs' =
           CreateTableIfNotExists("communication_logs", communication_logs)
    /\ runs' = runs + 1
    /\ pc' = "seed"
    /\ msg' = "none"
    /\ ret' = "none"
    /\ files' = {}
    /\ UNCHANGED <<exports, clock, aborted>>

\* ------------------------------------------- insert_sample_data (72-118)

SampleStaff(depts) ==
    [i \in 1..Len(sample_staff_spec) |->
        [name |-> sample_staff_spec[i][1],
         role |-> sample_staff_spec[i][2],
         department_id |-> DeptIdGet(depts, sample_staff_spec[i][3]),
         present |-> sample_staff_spec[i][4]]]

\* Each row reads datetime.now(UTC) on its own.
SampleIncidents(t0) ==
    [i \in 1..Len(sample_incidents_spec) |->
        [type |-> sample_incidents_spec[i][1],
         description |-> sample_incidents_spec[i][2],
         timestamp |-> t0 + i,
         priority |-> sample_incidents_spec[i][3],
         status |-> sample_incidents_spec[i][4]]]

SeedDepartments(depts) ==
    ExecuteManyOrIgnore("departments", depts, sample_departments)

SeedStaff(rows, depts) ==
    ExecuteManyOrIgnore("staff", rows, SampleStaff(depts))

SeedResources(rows) ==
    ExecuteManyOrIgnore("resources", rows, sample_resources)

InsertSampleData ==
    /\ pc = "seed"
    /\ \/ \* The first INSERT needs the write lock; a connection that was
          \* left with an open write transaction still holds it, and the
          \* statement raises OperationalError (database is locked).
          /\ leaked # <<>>
          /\ msg' = "exception"
          /\ pc' = "idle"
          /\ UNCHANGED <<tables, departments, staff, incidents, tasks,
                         resources, communication_logs, pending, leaked,
                         exports, runs, clock, ret, files, aborted>>
       \/ /\ leaked = <<>>
          /\ LET depts2 == SeedDepartments(departments) IN
                /\ departments' = depts2
                /\ staff' = SeedStaff(staff, depts2)
          /\ Commit(ConnIncidents \o SampleIncidents(clock))
          /\ clock' = clock + Len(sample_incidents_spec)
          /\ resources' = SeedResources(resources)
          /\ pc' = "ui"
          /\ UNCHANGED <<tables, tasks, communication_logs, leaked, exports,
                         runs, msg, ret, files, aborted>>

\* --------------------------------------------------- tab1 (lines 167-190)

SetDepartment(rows, n, status, notes) ==
    [i \in 1..Len(rows) |->
        IF rows[i].name = n
        THEN [rows[i] EXCEPT !.status = status, !.notes = notes]
        ELSE rows[i]]

UpdateDepartmentStatus ==
    /\ pc = "ui"
    /\ departments # <<>>
    /\ \E k \in PickIdx(Len(departments)), status \in DepartmentStatuses,
          notes \in NotesInputs :
          departments' =
              SetDepartment(departments, departments[k].name, status, notes)
    /\ Commit(ConnIncidents)
    /\ msg' = "success"
    /\ pc' = "idle"
    /\ UNCHANGED <<tables, staff, tasks, resources, communication_logs,
                   leaked, exports, runs, clock, ret, files, aborted>>

\* --------------------------------------------------- tab2 (lines 193-262)

AddNewStaff ==
    /\ pc = "ui"
    /\ departments # <<>>
    /\ \E n \in StaffNameInputs, role \in StaffRoleInputs,
          d \in PickIdx(Len(departments)) :
          \/ /\ n # "" /\ role # ""
             /\ staff' = Append(staff,
                    [name |-> n, role |-> role, department_id |-> d,
                     present |-> 0])
             /\ Commit(ConnIncidents)
             /\ msg' = "success"
          \/ /\ ~(n # "" /\ role # "")
             /\ msg' = "warning"
             /\ UNCHANGED <<staff, incidents, pending>>
    /\ pc' = "idle"
    /\ UNCHANGED <<tables, departments, tasks, resources,
                   communication_logs, leaked, exports, runs, clock, ret,
                   files, aborted>>

SetStaff(rows, id, role, dept, present) ==
    [i \in 1..Len(rows) |->
        IF i = id
        THEN [rows[i] EXCEPT !.role = role, !.department_id = dept,
                             !.present = present]
        ELSE rows[i]]

UpdateStaffDetails ==
    /\ pc = "ui"
    /\ staff # <<>>
    /\ departments # <<>>
    /\ \E k \in PickIdx(Len(staff)), role \in UpdatedRoleInputs,
          d \in PickIdx(Len(departments)), present \in {0, 1} :
          staff' = SetStaff(staff, FirstByName(staff, staff[k].name),
                            role, d, present)
    /\ Commit(ConnIncidents)
    /\ msg' = "success"
    /\ pc' = "idle"
    /\ UNCHANGED <<tables, departments, tasks, resources,
                   communication_logs, leaked, exports, runs, clock, ret,
                   files, aborted>>

\* --------------------------------------------------- tab3 (lines 265-295)

NewIncident(type, desc, ts, priority, status) ==
    [type |-> type, description |-> desc, timestamp |-> ts,
     priority |-> priority, status |-> status]

\* datetime.now(UTC).isoformat(): the instant of the read; no two reads
\* return the same instant.
Now == clock + 1

\* A faulty variant of LastInsertRowid: the id is read before the INSERT.
RowidBeforeInsert(incs) == Len(incs) - 1

\* SELECT last_insert_rowid() right after the INSERT INTO incidents.
LastInsertRowid(incs) == Len(incs)

NewTask(inc_id, title, assignee, ts) ==
    [incident_id |-> inc_id, title |-> title, assigned_to |-> assignee,
     status |-> "Open", timestamp |-> ts, resource_id |-> NULL]

LogIncidentAndAssignTask ==
    /\ pc = "ui"
    /\ staff # <<>>
    /\ \E s \in PickIdx(Len(staff)), type \in IncTypeInputs,
          desc \in IncDescInputs, priority \in IncPriorityInputs,
          status \in IncStatusInputs, title \in TaskTitleInputs :
          LET ts == Now
              incs2 == Append(ConnIncidents,
                              NewIncident(type, desc, ts, priority, status))
          IN
          \/ /\ type # "" /\ desc # ""
             /\ tasks' = Append(tasks,
                    NewTask(LastInsertRowid(incs2), title, s, ts))
             /\ Commit(incs2)
             /\ clock' = clock + 1
             /\ msg' = "success"
             /\ UNCHANGED aborted
          \/ \* A failure after the first INSERT and before the second: the
             \* exception leaves the handler; the script run ends with the
             \* incident written on conn and neither committed nor rolled
             \* back.
             /\ type # "" /\ desc # ""
             /\ pending' = Append(pending,
                    NewIncident(type, desc, ts, priority, status))
             /\ clock' = clock + 1
             /\ msg' = "exception"
             /\ aborted' = aborted \cup {ts}
             /\ UNCHANGED <<incidents, tasks>>
          \/ /\ ~(type # "" /\ desc # "")
             /\ msg' = "warning"
             /\ UNCHANGED <<incidents, tasks, pending, clock, aborted>>
    /\ pc' = "idle"
    /\ UNCHANGED <<tables, departments, staff, resources,
                   communication_logs, leaked, exports, runs, ret, files>>

\* --------------------------------------------------- tab4 (lines 298-328)

\* A faulty variant of SetTaskStatus: the timestamp column is left out of the UPDATE.
SetTaskStatusOnly(rows, id, status, ts) ==
    [i \in 1..Len(rows) |->
        IF i = id THEN [rows[i] EXCEPT !.status = status] ELSE rows[i]]

SetTaskStatus(rows, id, status, ts) ==
    [i \in 1..Len(rows) |->
        IF i = id
        THEN [rows[i] EXCEPT !.status = status, !.timestamp = ts]
        ELSE rows[i]]

UpdateTaskStatusTo(id, new_status) ==
    /\ pc = "ui"
    /\ tasks # <<>>
    /\ id \in 1..Len(tasks)
    /\ new_status \in TaskStatuses
    /\ tasks' = SetTaskStatus(tasks, id, new_status, Now)
    /\ clock' = clock + 1
    /\ Commit(ConnIncidents)
    /\ msg' = "success"
    /\ pc' = "idle"
    /\ UNCHANGED <<tables, departments, staff, resources,
                   communication_logs, leaked, exports, runs, ret, files, aborted>>

UpdateTaskStatus ==
    \E id \in 1..Len(tasks), new_status \in TaskStatuses :
        UpdateTaskStatusTo(id, new_status)

\* --------------------------------------------------- tab5 (lines 331-366)

AddResourceNamed(n, q, u) ==
    /\ pc = "ui"
    /\ LET row == [name |-> n, quantity |-> q, unit |-> u] IN
          \/ /\ n # "" /\ u # ""
             /\ ~Conflicts("resources", resources, row)
             /\ resources' = Append(resources, row)
             /\ Commit(ConnIncidents)
             /\ msg' = "success"
          \/ \* sqlite3.IntegrityError (UNIQUE constraint failed) is caught.
             /\ n # "" /\ u # ""
             /\ Conflicts("resources", resources, row)
             /\ msg' = "error"
             /\ UNCHANGED <<resources, incidents, pending>>
          \/ /\ ~(n # "" /\ u # "")
             /\ msg' = "warning"
             /\ UNCHANGED <<resources, incidents, pending>>
    /\ pc' = "idle"
    /\ UNCHANGED <<tables, departments, staff, tasks, communication_logs,
                   leaked, exports, runs, clock, ret, files, aborted>>

AddResource ==
    \E n \in ResourceNameInputs, q \in NewQuantityInputs,
       u \in ResourceUnitInputs : AddResourceNamed(n, q, u)

SetQuantity(rows, id, q) ==
    [i \in 1..Len(rows) |->
        IF i = id THEN [rows[i] EXCEPT !.quantity = q] ELSE rows[i]]

UpdateQuantity ==
    /\ pc = "ui"
    /\ resources # <<>>
    /\ \E k \in PickIdx(Len(resources)), q \in UpdatedQuantityInputs :
          resources' =
              SetQuantity(resources, FirstByName(resources, resources[k].name), q)
    /\ Commit(ConnIncidents)
    /\ msg' = "success"
    /\ pc' = "idle"
    /\ UNCHANGED <<tables, departments, staff, tasks, communication_logs,
                   leaked, exports, runs, clock, ret, files, aborted>>

\* ------------------------------------- update_incident_details (124-135)

SetIncident(rows, id, type, desc, priority, status) ==
    [i \in 1..Len(rows) |->
        IF i = id
        THEN [rows[i] EXCEPT !.type = type, !.description = desc,
                             !.priority = priority, !.status = status]
        ELSE rows[i]]

\* The UPDATE matches the rows WHERE id = incident_id (none, when there is
\* no such row), the commit follows and the function returns True.  The
\* except branch needs the statement to raise, which an UPDATE on an open
\* connection to an unlocked file does not.
update_incident_details(incident_id, incident_type, description, priority, status) ==
    /\ pc = "ui"
    /\ Commit(SetIncident(ConnIncidents, incident_id, incident_type,
                          description, priority, status))
    /\ ret' = "True"
    /\ pc' = "idle"
    /\ UNCHANGED <<tables, departments, staff, tasks, resources,
                   communication_logs, leaked, exports, runs, clock, msg,
                   files, aborted>>

\* A call of the function, with an id that exists or the first one that
\* does not.
UpdateIncidentDetailsCall ==
    \E incident_id \in {1, Len(ConnIncidents) + 1},
       type \in TypeArgs, desc \in DescriptionArgs,
       priority \in PriorityArgs, status \in StatusArgs :
        update_incident_details(incident_id, type, desc, priority, status)

\* ------------------------------------------- export_all (lines 139-148)

\* query_df("SELECT * FROM t") on conn.
Rows(t) ==
    CASE t = "departments" -> departments
      [] t = "staff" -> staff
      [] t = "incidents" -> ConnIncidents
      [] t = "tasks" -> tasks
      [] t = "resources" -> resources
      [] t = "communication_logs" -> communication_logs

\* A file's content: the tables it holds, each with its rows in order.
CsvContent(t) == << <<t, Rows(t)>> >>
BundleContent == [i \in 1..Len(TableOrder) |-> <<TableOrder[i], Rows(TableOrder[i])>>]

Produced(f) ==
    IF f = BundleName THEN BundleContent
    ELSE CsvContent(CHOOSE t \in SixTables : CsvName(t) = f)

\* to_csv and open(..., "w") replace a file of the same name; every other
\* file of the directory stays.
WriteExports(dir) ==
    [f \in DOMAIN dir \cup Artifacts |->
        IF f \in Artifacts THEN Produced(f) ELSE dir[f]]

\* os.listdir("exports")
ListDir(dir) == DOMAIN dir

export_all ==
    /\ pc = "ui"
    /\ exports' = WriteExports(exports)
    /\ files' = ListDir(exports')
    /\ pc' = "idle"
    /\ UNCHANGED <<tables, departments, staff, incidents, tasks, resources,
                   communication_logs, pending, leaked, runs, clock, msg,
                   ret, aborted>>

\* A run in which no button is pressed.
NoButton ==
    /\ pc = "ui"
    /\ pc' = "idle"
    /\ UNCHANGED <<tables, departments, staff, incidents, tasks, resources,
                   communication_logs, pending, leaked, exports, runs,
                   clock, msg, ret, files, aborted>>

\* -------------------------------------------------------------------- Spec

Next ==
    \/ InitDb
    \/ InsertSampleData
    \/ UpdateDepartmentStatus
    \/ AddNewStaff
    \/ UpdateStaffDetails
    \/ LogIncidentAndAssignTask
    \/ UpdateTaskStatus
    \/ AddResource
    \/ UpdateQuantity
    \/ UpdateIncidentDetailsCall
    \/ export_all
    \/ NoButton

Spec == Init /\ [][Next]_vars

\* ------------------------------------------------------------------ claims

BaselineDepartmentNames == {sample_departments[i].name : i \in 1..Len(sample_departments)}
BaselineResourceNames == {sample_resources[i].name : i \in 1..Len(sample_resources)}
BaselineStaffNames == {sample_staff_spec[i][1] : i \in 1..Len(sample_staff_spec)}

RowsNamed(rows, n) == {i \in 1..Len(rows) : rows[i].name = n}

\* rows2 starts with the rows of rows1, unaltered.
Extends(rows1, rows2) ==
    /\ Len(rows1) <= Len(rows2)
    /\ \A i \in 1..Len(rows1) : rows2[i] = rows1[i]

\* C1: a compound 'log incident and assign task' operation that fails between
\* its two INSERTs changes neither the incidents nor the tasks table, and in
\* no later state (whatever is committed afterwards) is its incident or its
\* task a row of the store.
C1_FailedCompoundPersistsNothing ==
    [][ /\ (aborted' # aborted =>
               /\ incidents' = incidents
               /\ tasks' = tasks)
        /\ \A ts \in aborted' :
               /\ \A i \in 1..Len(incidents') : incidents'[i].timestamp # ts
               /\ \A j \in 1..Len(tasks') : tasks'[j].timestamp # ts ]_vars

\* C1 witness: a compound operation failed in an earlier run and a later run
\* has committed (seed and a handler).
C1_Witness ==
    /\ aborted # {}
    /\ pc = "idle"
    /\ msg = "success"
    /\ pending = <<>>

C3_StoredValuesInDomain ==
    /\ \A i \in 1..Len(departments) : departments[i].status \in DepartmentStatuses
    /\ \A i \in 1..Len(incidents) :
          /\ incidents[i].priority \in Priorities
          /\ incidents[i].status \in IncidentStatuses
    /\ \A i \in 1..Len(tasks) : tasks[i].status \in TaskStatuses

\* C4 (as stated): update_incident_details with an incident_id that matches no
\* incident row does not return success.
C4_UnknownIdNotSuccess ==
    [][ \A incident_id \in {1, Len(ConnIncidents) + 1}, type \in TypeArgs,
           desc \in DescriptionArgs, priority \in PriorityArgs,
           status \in StatusArgs :
           (/\ update_incident_details(incident_id, type, desc, priority, status)
            /\ incident_id \notin 1..Len(ConnIncidents))
           => ret' # "True" ]_vars

\* C5: every invocation of the seed loader leaves exactly one row for each
\* baseline department and resource name, leaves the rows that existed as
\* they were (updated status, notes and quantity included), and after the
\* first invocation adds no department or resource row.
C5_SeedIdempotentOnUniqueNames ==
    [][ (pc = "seed") =>
            /\ \A n \in BaselineDepartmentNames :
                  Cardinality(RowsNamed(departments', n)) = 1
            /\ \A n \in BaselineResourceNames :
                  Cardinality(RowsNamed(resources', n)) = 1
            /\ Extends(departments, departments')
            /\ Extends(resources, resources')
            /\ (runs >= 2 => /\ departments' = departments
                             /\ resources' = resources) ]_vars

\* C5 witness: the seed loader has run again on a store whose baseline
\* department and resource rows had been updated.
C5_Witness ==
    /\ pc = "ui"
    /\ runs >= 3
    /\ \E i \in 1..Len(departments) :
          /\ departments[i].name \in BaselineDepartmentNames
          /\ departments[i].status = "Red"
          /\ departments[i].notes = "Power failure"
    /\ \E i \in 1..Len(resources) :
          /\ resources[i].name \in BaselineResourceNames
          /\ resources[i].quantity = 7

\* C6 (as stated): there is at most one staff row per baseline staff name.
C6_OneRowPerSeedStaffName ==
    \A n \in BaselineStaffNames : Cardinality(RowsNamed(staff, n)) <= 1

\* C7: init_db on a store that holds the six tables raises nothing and leaves
\* the set of tables and every table's rows unchanged.
C7_InitDbIdempotent ==
    [][ (InitDb /\ tables = SixTables) =>
            /\ tables' = tables
            /\ departments' = departments
            /\ staff' = staff
            /\ incidents' = incidents
            /\ tasks' = tasks
            /\ resources' = resources
            /\ communication_logs' = communication_logs
            /\ msg' # "exception" ]_vars

\* C7 witness: init_db has run on a store that already held the tables and
\* rows in them.
C7_Witness ==
    /\ pc = "seed"
    /\ runs >= 2
    /\ tasks # <<>>
    /\ Len(staff) > Len(sample_staff_spec)
    /\ departments # <<>>
    /\ resources # <<>>

\* C8 (as stated): export_all returns exactly the names of the seven
\* artifacts, and each artifact holds the store's rows at the export.
C8_ExportReturnsProduced ==
    (pc = "idle" /\ files # {}) =>
        /\ files = Artifacts
        /\ \A f \in Artifacts : exports[f] = Produced(f)

\* C9: updating a task's status is allowed for every existing task and every
\* status of {Open, In Progress, Completed}, whatever the task's status; it
\* sets the status to the chosen value and the timestamp to the instant of
\* the update, and changes nothing else in the store.
C9_TaskStatusUnrestricted ==
    /\ [](pc = "ui" =>
            \A id \in 1..Len(tasks), s \in TaskStatuses :
                ENABLED UpdateTaskStatusTo(id, s))
    /\ [][ \A id \in 1..Len(tasks), s \in TaskStatuses :
              UpdateTaskStatusTo(id, s) =>
                  /\ Len(tasks') = Len(tasks)
                  /\ tasks'[id] = [tasks[id] EXCEPT !.status = s,
                                                    !.timestamp = clock']
                  /\ clock' > clock
                  /\ \A j \in 1..Len(tasks) : j # id => tasks'[j] = tasks[j]
                  /\ UNCHANGED <<tables, departments, staff, incidents,
                                 resources, communication_logs>> ]_vars

\* C9 witness: a task that was Completed has been set back to Open.
C9_Witness ==
    /\ pc = "idle"
    /\ runs >= 3
    /\ \E id \in 1..Len(tasks) :
          /\ tasks[id].status = "Open"
          /\ tasks[id].timestamp > incidents[tasks[id].incident_id].timestamp + 1

\* C10: there are no dangling references: every staff row's department_id is
\* the id of a department, every task's incident_id is the id of the incident
\* logged with it (the incident carries the task's creation instant, and no
\* two tasks share one) and its assigned_to is the id of a staff row; so the
\* inner-join 'All Staff' view lists every staff row.
C10_NoDanglingReferences ==
    /\ \A i \in 1..Len(staff) : staff[i].department_id \in 1..Len(departments)
    /\ \A j \in 1..Len(tasks) :
          /\ tasks[j].incident_id \in 1..Len(incidents)
          /\ LET inc == incidents[tasks[j].incident_id] IN
                \/ inc.timestamp = tasks[j].timestamp
                \/ /\ inc.timestamp < tasks[j].timestamp
                   /\ \A i \in 1..Len(incidents) :
                         incidents[i].timestamp # tasks[j].timestamp
          /\ tasks[j].assigned_to \in 1..Len(staff)
          /\ \A k \in 1..Len(tasks) :
                tasks[k].incident_id = tasks[j].incident_id => k = j
    /\ AllStaffView = [i \in 1..Len(staff) |-> JoinRow(staff[i])]

\* C10 witness: staff have been seeded, registered and moved to another
\* department, and a task has been assigned.
C10_Witness ==
    /\ pc = "idle"
    /\ tasks # <<>>
    /\ \E i \in 1..Len(staff) : staff[i].name = "Eve Adams"
    /\ \E i \in 1..Len(staff) :
          /\ staff[i].name = "Alice Smith"
          /\ staff[i].role = "Doctor"
          /\ staff[i].department_id # 1

=============================================================================
